---- MODULE Spec2Model ----
(***************************************************************************)
(* Model of patent_dashboard_dash.py: the record table loaded at start-up, *)
(* the company catalog, the three chart builders, the per-year summary and *)
(* the Dash callback update_dashboard that binds the three inputs          *)
(* (companies, year, tab) to the two outputs (summary, tab content).       *)
(*                                                                         *)
(* A DataFrame is a record [columns, rows]: columns is the set of column   *)
(* names, rows the sequence of rows in file order.  A row carries the five *)
(* named columns and `cells`, the function from the table's year columns   *)
(* ("2024", "2025", ...) to that row's citation count, NaN for a blank CSV *)
(* cell.                                                                   *)
(***************************************************************************)
EXTENDS Integers, Sequences, FiniteSets, TLC

VARIABLES pc, csv, df, companies, available_years,
          company_dropdown, year_dropdown, tabs,
          summary_text, tab_content, memo, call

vars == <<pc, csv, df, companies, available_years, company_dropdown,
          year_dropdown, tabs, summary_text, tab_content, memo, call>>

-----------------------------------------------------------------------------
(* Values of the Python program *)

\* None, and NaN (a blank CSV cell); a cell holding the number v is <<v>>
None == <<>>
NaN == <<>>

\* range(selected_year + 1, 2026): the exclusive end of the year columns read
HorizonEnd == 2026
Horizon == HorizonEnd - 1

BaseColumns == {"assignee_id", "raw_assignee_organization", "cited_year",
                "patents_assigned", "total_citations"}

\* pd.DataFrame(): no columns, no rows
EmptyFrame == [columns |-> {}, rows |-> <<>>]

-----------------------------------------------------------------------------
(* Bounds of the model *)

MaxRows == 2

AssigneeIds == {"AAAAAAAA1234", "BBBBBBBB5678"}
Organizations == {"Acme", "Bolt"}
CitedYears == {2023, 2024, 2025}
Counts == {0, 1}
Cells == {<<v>> : v \in Counts} \cup {NaN}

-----------------------------------------------------------------------------
(* str(year) and int(year_col) *)

Digit(d) == <<"0", "1", "2", "3", "4", "5", "6", "7", "8", "9">>[d + 1]

RECURSIVE str(_)
str(n) == IF n < 10 THEN Digit(n) ELSE str(n \div 10) \o Digit(n % 10)

ParseRange == (HorizonEnd - 10)..HorizonEnd
IntOf == [s \in {str(n) : n \in ParseRange} |-> CHOOSE n \in ParseRange : str(n) = s]
int(s) == IntOf[s]

\* the year columns a source table may carry
YearColumns == {str(y) : y \in CitedYears \ {2023}}

-----------------------------------------------------------------------------
(* pandas primitives *)

Range(s) == {s[i] : i \in DOMAIN s}

\* Series.unique(): the distinct values in order of first appearance
RECURSIVE unique(_)
unique(s) ==
    IF s = <<>> THEN <<>>
    ELSE LET front == unique(SubSeq(s, 1, Len(s) - 1))
             last == s[Len(s)]
         IN IF last \in Range(front) THEN front ELSE Append(front, last)

\* frame[col] for one of the named columns
Column(frame, col) == [i \in DOMAIN frame.rows |-> frame.rows[i][col]]

\* frame[frame[col] == value]
WhereEq(frame, col, value) ==
    [frame EXCEPT !.rows = SelectSeq(frame.rows, LAMBDA r : r[col] = value)]

\* Series.sum() of a column of numbers
RECURSIVE sum(_)
sum(s) == IF s = <<>> THEN 0 ELSE s[1] + sum(Tail(s))

\* Series.sum() of a column of cells: skipna, the NaN entries are left out
RECURSIVE dropna(_)
dropna(s) == IF s = <<>> THEN <<>> ELSE s[1] \o dropna(Tail(s))

\* sorted(...) / sort_values on integers, ascending
RECURSIVE SortedSeq(_)
SortedSeq(S) ==
    IF S = {} THEN <<>>
    ELSE LET m == CHOOSE x \in S : \A y \in S : x <= y
         IN <<m>> \o SortedSeq(S \ {m})

-----------------------------------------------------------------------------
(* get_company_list *)

\* assignee_id.str[:8] on the identifiers of the model
Prefix8 == [id \in AssigneeIds |->
              IF id = "AAAAAAAA1234" THEN "AAAAAAAA" ELSE "BBBBBBBB"]

DisplayName(org, id) == org \o " (" \o Prefix8[id] \o "...)"

\* Python's string order on the strings the model compares: the identifiers
\* and the display names, listed in ascending order
StringOrder ==
    <<"AAAAAAAA1234",
      DisplayName("Acme", "AAAAAAAA1234"), DisplayName("Acme", "BBBBBBBB5678"),
      "BBBBBBBB5678",
      DisplayName("Bolt", "AAAAAAAA1234"), DisplayName("Bolt", "BBBBBBBB5678")>>
StrRank == [s \in Range(StringOrder) |->
              CHOOSE i \in DOMAIN StringOrder : StringOrder[i] = s]
StrLess(a, b) == StrRank[a] < StrRank[b]

\* groupby([...]).size().reset_index(): one row per distinct key, keys ascending
GroupKeys(frame) ==
    {<<r.assignee_id, r.raw_assignee_organization>> : r \in Range(frame.rows)}

\* sort_values(by): the rows of S in ascending order of by
RECURSIVE SortBy(_, _)
SortBy(S, by) ==
    IF S = {} THEN <<>>
    ELSE LET m == CHOOSE x \in S : \A y \in S : x = y \/ StrLess(x[by], y[by])
         IN <<m>> \o SortBy(S \ {m}, by)

get_company_list(frame) ==
    LET grouped == {[assignee_id |-> k[1],
                     display_name |-> DisplayName(k[2], k[1])] : k \in GroupKeys(frame)}
    IN SortBy(grouped, "display_name")

-----------------------------------------------------------------------------
(* create_citations_to_year_chart *)

\* company_data['raw_assignee_organization'].iloc[0]
FirstName(company_data) == company_data.rows[1].raw_assignee_organization

\* a sum that counts equal cells of different records once
ColumnSumDistinct(year_data, year_col) ==
    LET cells == {year_data.rows[i].cells[year_col] : i \in DOMAIN year_data.rows}
        values == {c[1] : c \in cells \ {NaN}}
    IN IF values = {} THEN 0
       ELSE IF Cardinality(values) = 1 THEN CHOOSE v \in values : TRUE
       ELSE CHOOSE v \in values : \A w \in values : w <= v

\* year_data[year_col].sum()
ColumnSum(year_data, year_col) ==
    sum(dropna([i \in DOMAIN year_data.rows |-> year_data.rows[i].cells[year_col]]))

\* [str(year) for year in range(selected_year + 1, 2026)]
YearCols(selected_year) ==
    [i \in 1..(HorizonEnd - 1 - selected_year) |-> str(selected_year + i)]

\* the list citations_by_year built for one company's year_data
CitationsByYear(year_data, selected_year) ==
    LET present == SelectSeq(YearCols(selected_year),
                             LAMBDA year_col : year_col \in year_data.columns)
    IN [i \in DOMAIN present |->
          [year |-> int(present[i]),
           citations |-> ColumnSum(year_data, present[i])]]

NoTrace == [name |-> "NoTrace"]

\* a pass that adds the trace also when citations_by_year is empty
CitationsTraceKeepEmpty(df_companies, assignee_id, selected_year) ==
    LET company_data == WhereEq(df_companies, "assignee_id", assignee_id)
        year_data == WhereEq(company_data, "cited_year", selected_year)
        citations_by_year == CitationsByYear(year_data, selected_year)
    IN IF year_data.rows # <<>>
       THEN [assignee_id |-> assignee_id,
             name |-> FirstName(company_data),
             x |-> [i \in DOMAIN citations_by_year |-> citations_by_year[i].year],
             y |-> [i \in DOMAIN citations_by_year |-> citations_by_year[i].citations]]
       ELSE NoTrace

\* a pass that zero-fills a company without a record at the selected year,
\* the way get_patents_in_year does
CitationsTraceZeroFilled(df_companies, assignee_id, selected_year) ==
    LET company_data == WhereEq(df_companies, "assignee_id", assignee_id)
        year_data == WhereEq(company_data, "cited_year", selected_year)
        citations_by_year == CitationsByYear(year_data, selected_year)
    IN IF citations_by_year # <<>>
       THEN [assignee_id |-> assignee_id,
             name |-> FirstName(company_data),
             x |-> [i \in DOMAIN citations_by_year |-> citations_by_year[i].year],
             y |-> [i \in DOMAIN citations_by_year |-> citations_by_year[i].citations]]
       ELSE NoTrace

\* One pass of the loop over the companies: the trace added for assignee_id,
\* NoTrace when the pass adds none.  The assignee_id field is the loop variable
\* the trace was built under; it tells apart companies sharing a name.
CitationsTrace(df_companies, assignee_id, selected_year) ==
    LET company_data == WhereEq(df_companies, "assignee_id", assignee_id)
        year_data == WhereEq(company_data, "cited_year", selected_year)
        citations_by_year == CitationsByYear(year_data, selected_year)
    IN IF year_data.rows # <<>> /\ citations_by_year # <<>>
       THEN [assignee_id |-> assignee_id,
             name |-> FirstName(company_data),
             x |-> [i \in DOMAIN citations_by_year |-> citations_by_year[i].year],
             y |-> [i \in DOMAIN citations_by_year |-> citations_by_year[i].citations]]
       ELSE NoTrace

create_citations_to_year_chart(df_companies, selected_year) ==
    LET ids == unique(Column(df_companies, "assignee_id"))
        passes == [i \in DOMAIN ids |-> CitationsTrace(df_companies, ids[i], selected_year)]
    IN [title |-> <<"Citations to Patents from", selected_year, "by Subsequent Year">>,
        data |-> SelectSeq(passes, LAMBDA t : t # NoTrace)]

-----------------------------------------------------------------------------
(* get_patents_in_year *)

\* an entry that takes the first matching record instead of the sum
PatentsInfoFirstRecord(df_companies, assignee_id, selected_year) ==
    LET company_data == WhereEq(df_companies, "assignee_id", assignee_id)
        year_data == WhereEq(company_data, "cited_year", selected_year)
    IN IF year_data.rows # <<>>
       THEN [company |-> FirstName(company_data),
             patents |-> year_data.rows[1].patents_assigned]
       ELSE [company |-> FirstName(company_data), patents |-> 0]

\* one pass of the loop: the entry appended for assignee_id
PatentsInfo(df_companies, assignee_id, selected_year) ==
    LET company_data == WhereEq(df_companies, "assignee_id", assignee_id)
        year_data == WhereEq(company_data, "cited_year", selected_year)
    IN IF year_data.rows # <<>>
       THEN [company |-> FirstName(company_data),
             patents |-> sum(Column(year_data, "patents_assigned"))]
       ELSE [company |-> FirstName(company_data), patents |-> 0]

get_patents_in_year(df_companies, selected_year) ==
    LET ids == unique(Column(df_companies, "assignee_id"))
    IN [i \in DOMAIN ids |-> PatentsInfo(df_companies, ids[i], selected_year)]

-----------------------------------------------------------------------------
(* create_patents_timeline, create_citations_timeline *)

\* a grouping that keeps one row per record instead of one per year
GroupSumNoMerge(company_data, col) ==
    [i \in DOMAIN company_data.rows |->
        [cited_year |-> company_data.rows[i].cited_year,
         value |-> company_data.rows[i][col]]]

\* company_data.groupby('cited_year')[col].sum().reset_index(): one row per
\* distinct cited_year, in ascending order of the key
GroupSum(company_data, col) ==
    LET keys == SortedSeq(Range(Column(company_data, "cited_year")))
    IN [i \in DOMAIN keys |->
          [cited_year |-> keys[i],
           value |-> sum(Column(WhereEq(company_data, "cited_year", keys[i]), col))]]

\* by_year.sort_values('cited_year')
RECURSIVE SortByYear(_)
SortByYear(by_year) ==
    IF by_year = <<>> THEN <<>>
    ELSE LET i == CHOOSE i \in DOMAIN by_year :
                      \A j \in DOMAIN by_year :
                          \/ by_year[i].cited_year < by_year[j].cited_year
                          \/ (by_year[i].cited_year = by_year[j].cited_year /\ i <= j)
         IN <<by_year[i]>> \o
            SortByYear(SubSeq(by_year, 1, i - 1) \o SubSeq(by_year, i + 1, Len(by_year)))

TimelineTrace(df_companies, assignee_id, col) ==
    LET company_data == WhereEq(df_companies, "assignee_id", assignee_id)
        by_year == SortByYear(GroupSum(company_data, col))
    IN [assignee_id |-> assignee_id,
        name |-> FirstName(company_data),
        x |-> [i \in DOMAIN by_year |-> by_year[i].cited_year],
        y |-> [i \in DOMAIN by_year |-> by_year[i].value]]

create_patents_timeline(df_companies) ==
    LET ids == unique(Column(df_companies, "assignee_id"))
    IN [title |-> <<"Patents Assigned by Year - Company Comparison">>,
        data |-> [i \in DOMAIN ids |->
                    TimelineTrace(df_companies, ids[i], "patents_assigned")]]

create_citations_timeline(df_companies) ==
    LET ids == unique(Column(df_companies, "assignee_id"))
    IN [title |-> <<"Total Citations Received by Year - Company Comparison">>,
        data |-> [i \in DOMAIN ids |->
                    TimelineTrace(df_companies, ids[i], "total_citations")]]

-----------------------------------------------------------------------------
(* update_dashboard *)

Text(t) == [kind |-> "text", text |-> t]
Graph(fig) == [kind |-> "graph", figure |-> fig]
KeyError == [kind |-> "KeyError"]

TabValues == {"citations-to-year", "patents-timeline", "citations-timeline"}

\* `not selected_year`: None and 0 are false.  A dropdown value is None or <<year>>.
Falsy(selected_year) == selected_year = None \/ selected_year = <<0>>

\* df[df['assignee_id'].isin(selected_companies)].copy()
FilterCompanies(frame, selected_companies) ==
    [frame EXCEPT !.rows = SelectSeq(frame.rows,
                                     LAMBDA r : r.assignee_id \in selected_companies)]

\* the html.Div built from patents_in_year: the heading and one list item per
\* entry, each item the company, its count and the year the f-string shows
SummaryText(patents_in_year, year) ==
    [kind |-> "summary",
     heading |-> year,
     items |-> [i \in DOMAIN patents_in_year |->
                  [company |-> patents_in_year[i].company,
                   patents |-> patents_in_year[i].patents,
                   year |-> year]]]

\* a branch that builds the patents timeline for the citations-timeline tab
TabContentPatentsTwice(companies_data, year, active_tab) ==
    IF active_tab = "citations-to-year"
    THEN Graph(create_citations_to_year_chart(companies_data, year))
    ELSE IF active_tab = "patents-timeline"
    THEN Graph(create_patents_timeline(companies_data))
    ELSE IF active_tab = "citations-timeline"
    THEN Graph(create_patents_timeline(companies_data))
    ELSE Text("")

\* the branch on active_tab
TabContent(companies_data, year, active_tab) ==
    IF active_tab = "citations-to-year"
    THEN Graph(create_citations_to_year_chart(companies_data, year))
    ELSE IF active_tab = "patents-timeline"
    THEN Graph(create_patents_timeline(companies_data))
    ELSE IF active_tab = "citations-timeline"
    THEN Graph(create_citations_timeline(companies_data))
    ELSE Text("")

\* The pair (summary-text, tab-content) the callback returns; the pair of
\* KeyError when it raises (df has no assignee_id column).
update_dashboard(selected_companies, selected_year, active_tab) ==
    IF selected_companies = {} \/ Falsy(selected_year)
    THEN <<Text("Please select companies and a year to analyze."), Text("")>>
    ELSE IF "assignee_id" \notin df.columns
    THEN <<KeyError, KeyError>>
    ELSE LET companies_data == FilterCompanies(df, selected_companies)
             patents_in_year == get_patents_in_year(companies_data, selected_year[1])
         IN <<SummaryText(patents_in_year, selected_year[1]),
              TabContent(companies_data, selected_year[1], active_tab)>>

\* a callback that assigns the filtered table to the module-level df
StoreFilteredInPlace(selected_companies, selected_year) ==
    IF selected_companies = {} \/ Falsy(selected_year) \/ "assignee_id" \notin df.columns
    THEN df
    ELSE FilterCompanies(df, selected_companies)

\* The module-level df after a callback has run: the callback filters a copy.
StoreAfterCallback(selected_companies, selected_year) == df

-----------------------------------------------------------------------------
(* The source tables *)

\* The rows of a table with the year columns cols.  Citations are forward
\* citations: the cell of a year that is not after the row's cited_year is
\* blank, the cell of a later year is drawn from cellvals.
RowSet(orgs, years, pats, tots, cellvals, cols) ==
    {r \in [assignee_id : AssigneeIds,
            raw_assignee_organization : orgs,
            cited_year : years,
            patents_assigned : pats,
            total_citations : tots,
            cells : [cols -> cellvals \cup {NaN}]] :
        \A c \in cols : IF int(c) <= r.cited_year THEN r.cells[c] = NaN
                        ELSE r.cells[c] \in cellvals}

SeqsUpTo(S, n) == UNION {[1..k -> S] : k \in 0..n}

Frame(cols, rows) == [columns |-> BaseColumns \cup cols, rows |-> rows]

\* tables that vary the year columns and their cells
IsCitationTable(t) ==
    \E cols \in SUBSET YearColumns :
      \E rows \in SeqsUpTo(RowSet({"Acme"}, CitedYears, {1}, {1}, Cells, cols), MaxRows) :
        t = Frame(cols, rows)

\* tables that vary the named columns
IsCountTable(t) ==
    \E rows \in SeqsUpTo(RowSet(Organizations, CitedYears, Counts, Counts, {NaN},
                                YearColumns), MaxRows) :
        t = Frame(YearColumns, rows)

FileMissing == [columns |-> {}, rows |-> <<>>, missing |-> TRUE]

-----------------------------------------------------------------------------
(* The functions called on a table *)

NoCall == [fn |-> "none"]
NotRendered == [kind |-> "not rendered"]
NoMemo == [kind |-> "none"]

InitFn ==
    /\ pc = "fn"
    /\ IsCitationTable(df) \/ IsCountTable(df)
    /\ csv = df
    /\ companies = <<>>
    /\ available_years = <<>>
    /\ company_dropdown = {}
    /\ year_dropdown = None
    /\ tabs = "citations-to-year"
    /\ summary_text = NotRendered
    /\ tab_content = NotRendered
    /\ memo = NoMemo
    /\ call = NoCall

appVars == <<csv, df, companies, available_years, company_dropdown,
             year_dropdown, tabs, summary_text, tab_content, memo>>

CallCitationsToYear(Y) ==
    /\ pc = "fn"
    /\ call' = [fn |-> "create_citations_to_year_chart", year |-> Y,
                ret |-> create_citations_to_year_chart(df, Y)]
    /\ pc' = "returned"
    /\ UNCHANGED appVars

CallPatentsInYear(Y) ==
    /\ pc = "fn"
    /\ call' = [fn |-> "get_patents_in_year", year |-> Y,
                ret |-> get_patents_in_year(df, Y)]
    /\ pc' = "returned"
    /\ UNCHANGED appVars

CallPatentsTimeline ==
    /\ pc = "fn"
    /\ call' = [fn |-> "create_patents_timeline",
                ret |-> create_patents_timeline(df)]
    /\ pc' = "returned"
    /\ UNCHANGED appVars

CallCitationsTimeline ==
    /\ pc = "fn"
    /\ call' = [fn |-> "create_citations_timeline",
                ret |-> create_citations_timeline(df)]
    /\ pc' = "returned"
    /\ UNCHANGED appVars

CallCompanyList ==
    /\ pc = "fn"
    /\ call' = [fn |-> "get_company_list", ret |-> get_company_list(df)]
    /\ pc' = "returned"
    /\ UNCHANGED appVars

\* the result is used and dropped; the table is ready for the next call
Discard ==
    /\ pc = "returned"
    /\ pc' = "fn"
    /\ call' = NoCall
    /\ UNCHANGED appVars

NextFn ==
    \/ \E Y \in CitedYears : CallCitationsToYear(Y)
    \/ \E Y \in CitedYears : CallPatentsInYear(Y)
    \/ CallPatentsTimeline
    \/ CallCitationsTimeline
    \/ CallCompanyList
    \/ Discard

SpecFn == InitFn /\ [][NextFn]_vars

-----------------------------------------------------------------------------
(* The dashboard: start-up, the page load and the three inputs *)

\* before the module-level load runs; the file on disk is the environment's
InitOn(files) ==
    /\ pc = "start"
    /\ csv \in files
    /\ df = EmptyFrame
    /\ companies = <<>>
    /\ available_years = <<>>
    /\ company_dropdown = {}
    /\ year_dropdown = None
    /\ tabs = "citations-to-year"
    /\ summary_text = NotRendered
    /\ tab_content = NotRendered
    /\ memo = NoMemo
    /\ call = NoCall

\* value= of the company dropdown in app.layout
InitialCompanies(catalog) ==
    IF Len(catalog) > 0 THEN {catalog[1].assignee_id} ELSE {}

\* a layout that falls back to a default year when no year is available
InitialYearDefault(years) == IF Len(years) > 0 THEN <<years[1]>> ELSE <<Horizon>>

\* value= of the year dropdown in app.layout
InitialYear(years) == IF Len(years) > 0 THEN <<years[1]>> ELSE None

\* options= of the two dropdowns, as the values a user can pick
CompanyOptions == {companies[i].assignee_id : i \in DOMAIN companies}
YearOptions == {<<available_years[i]>> : i \in DOMAIN available_years}

\* try: load_data(), get_company_list(df), sorted(df['cited_year'].unique());
\* then the layout is built from the catalog and the years
LoadData ==
    /\ pc = "start"
    /\ csv # FileMissing
    /\ df' = csv
    /\ companies' = get_company_list(csv)
    /\ available_years' = SortedSeq(Range(Column(csv, "cited_year")))
    /\ company_dropdown' = InitialCompanies(companies')
    /\ year_dropdown' = InitialYear(available_years')
    /\ pc' = "layout"
    /\ UNCHANGED <<csv, tabs, summary_text, tab_content, memo, call>>

\* except FileNotFoundError: empty frames and no years
LoadFileNotFound ==
    /\ pc = "start"
    /\ csv = FileMissing
    /\ df' = EmptyFrame
    /\ companies' = <<>>
    /\ available_years' = <<>>
    /\ company_dropdown' = InitialCompanies(companies')
    /\ year_dropdown' = InitialYear(available_years')
    /\ pc' = "layout"
    /\ UNCHANGED <<csv, tabs, summary_text, tab_content, memo, call>>

\* Dash runs the callback with the three current input values and writes the
\* two outputs
Callback(selected_companies, selected_year, active_tab) ==
    LET out == update_dashboard(selected_companies, selected_year, active_tab)
    IN /\ company_dropdown' = selected_companies
       /\ year_dropdown' = selected_year
       /\ tabs' = active_tab
       /\ summary_text' = out[1]
       /\ tab_content' = out[2]
       /\ df' = StoreAfterCallback(selected_companies, selected_year)
       /\ memo' = IF memo = NoMemo THEN memo
                  ELSE [memo EXCEPT !.left = @ \/ memo.companies # selected_companies
                                               \/ memo.year # selected_year
                                               \/ memo.tab # active_tab]
       /\ UNCHANGED <<csv, companies, available_years, call>>

\* the browser opens the page: the callback runs on the layout's initial values
PageLoad ==
    /\ pc = "layout"
    /\ pc' = "serving"
    /\ Callback(company_dropdown, year_dropdown, tabs)

ChangeCompanies(selection) ==
    /\ pc = "serving"
    /\ pc' = pc
    /\ Callback(selection, year_dropdown, tabs)

ChangeYear(year) ==
    /\ pc = "serving"
    /\ pc' = pc
    /\ Callback(company_dropdown, year, tabs)

ChangeTab(tab) ==
    /\ pc = "serving"
    /\ pc' = pc
    /\ Callback(company_dropdown, year_dropdown, tab)

\* An observer notes the selection and the output on display; memo.left
\* tells whether a callback with another selection has run since.
Remember ==
    /\ pc = "serving"
    /\ memo = NoMemo
    /\ memo' = [kind |-> "memo",
                companies |-> company_dropdown, year |-> year_dropdown, tab |-> tabs,
                out |-> <<summary_text, tab_content>>, left |-> FALSE]
    /\ UNCHANGED <<pc, csv, df, companies, available_years, company_dropdown,
                   year_dropdown, tabs, summary_text, tab_content, call>>

Next ==
    \/ LoadData
    \/ LoadFileNotFound
    \/ PageLoad
    \/ \E selection \in SUBSET CompanyOptions : ChangeCompanies(selection)
    \/ \E year \in YearOptions \cup {None} : ChangeYear(year)
    \/ \E tab \in TabValues : ChangeTab(tab)

SourceFiles == {FileMissing} \cup {Frame(YearColumns, rows) :
    rows \in SeqsUpTo(RowSet({"Acme"}, CitedYears, {1}, {1}, {<<1>>, NaN}, YearColumns),
                      MaxRows)}

SmallFiles == {FileMissing} \cup {Frame(YearColumns, rows) :
    rows \in SeqsUpTo(RowSet({"Acme"}, {2024, 2025}, {1}, {1}, {<<1>>}, YearColumns),
                      MaxRows)}

Init == InitOn(SourceFiles)

Spec == Init /\ [][Next]_vars

InitRemember == InitOn(SmallFiles)

NextRemember == Next \/ Remember

SpecRemember == InitRemember /\ [][NextRemember]_vars

-----------------------------------------------------------------------------
(* Vocabulary of the properties, defined on the table itself *)

IdsIn(t) == {t.rows[i].assignee_id : i \in DOMAIN t.rows}

RowsOf(t, id) == {i \in DOMAIN t.rows : t.rows[i].assignee_id = id}

RowsAt(t, id, Y) == {i \in RowsOf(t, id) : t.rows[i].cited_year = Y}

YearsOf(t, id) == {t.rows[i].cited_year : i \in RowsOf(t, id)}

FirstRow(t, id) == CHOOSE i \in RowsOf(t, id) : \A j \in RowsOf(t, id) : i <= j

\* the rank of id among the companies of t in order of first appearance
Pos(t, id) == Cardinality({j \in IdsIn(t) : FirstRow(t, j) <= FirstRow(t, id)})

RECURSIVE SetSum(_, _)
SetSum(I, f) ==
    IF I = {} THEN 0
    ELSE LET i == CHOOSE i \in I : TRUE IN f[i] + SetSum(I \ {i}, f)

RECURSIVE SeqSum(_)
SeqSum(q) == IF q = <<>> THEN 0 ELSE q[1] + SeqSum(Tail(q))

\* the year-yr citation field of row i: zero when blank or when the table has
\* no such column
CellValue(t, i, yr) ==
    IF str(yr) \notin t.columns THEN 0
    ELSE IF t.rows[i].cells[str(yr)] = NaN THEN 0
    ELSE t.rows[i].cells[str(yr)][1]

CitationSum(t, id, Y, yr) ==
    SetSum(RowsAt(t, id, Y), [i \in RowsAt(t, id, Y) |-> CellValue(t, i, yr)])

NamedSum(t, I, col) == SetSum(I, [i \in I |-> t.rows[i][col]])

TracesOf(fig, id) == {i \in DOMAIN fig.data : fig.data[i].assignee_id = id}

StrictlyIncreasing(q) == \A i, j \in DOMAIN q : i < j => q[i] < q[j]

IsChartCall == call.fn = "create_citations_to_year_chart"

-----------------------------------------------------------------------------
(* C1 *)

\* C1: for a reference year Y below the horizon, every company with a record
\* at Y gets a series whose years are exactly Y+1, ..., horizon, in increasing
\* order, also where a year's citation field is zero or absent from the table.
C1_FullSeries ==
    (IsChartCall /\ call.year < Horizon) =>
        \A id \in IdsIn(df) :
            RowsAt(df, id, call.year) # {} =>
                \E i \in TracesOf(call.ret, id) :
                    call.ret.data[i].x =
                        [k \in 1..(Horizon - call.year) |-> call.year + k]

-----------------------------------------------------------------------------
(* C9 *)

\* C9: every point (t, v) of a company's citations-to-year series has
\* Y < t <= horizon and v equal to the sum of the year-t field over all of the
\* company's records with cited_year = Y, duplicates added, nothing else
\* counted; and every tracked year after Y has its point.
C9_ValuesAreSums ==
    IsChartCall =>
        /\ \A i \in DOMAIN call.ret.data :
             LET trace == call.ret.data[i] IN
             /\ Cardinality(TracesOf(call.ret, trace.assignee_id)) = 1
             /\ RowsAt(df, trace.assignee_id, call.year) # {}
             /\ \A k \in DOMAIN trace.x :
                  /\ trace.x[k] \in (call.year + 1)..Horizon
                  /\ trace.y[k] = CitationSum(df, trace.assignee_id, call.year, trace.x[k])
        /\ \A id \in IdsIn(df) : \A yr \in (call.year + 1)..Horizon :
             (RowsAt(df, id, call.year) # {} /\ str(yr) \in df.columns) =>
                 \E i \in TracesOf(call.ret, id) :
                     \E k \in DOMAIN call.ret.data[i].x : call.ret.data[i].x[k] = yr

\* two records of one company at Y are added into one point, next to a
\* company whose series has a different value
C9_Witness ==
    /\ IsChartCall
    /\ \E i \in DOMAIN call.ret.data :
         /\ Cardinality(RowsAt(df, call.ret.data[i].assignee_id, call.year)) = 2
         /\ \E k \in DOMAIN call.ret.data[i].y : call.ret.data[i].y[k] = 2

-----------------------------------------------------------------------------
(* C10 *)

\* C10 as stated: at the last tracked year the company with a record at Y gets
\* a series with no points.
C10_EmptySeries ==
    (IsChartCall /\ call.year = Horizon) =>
        \A id \in IdsIn(df) :
            RowsAt(df, id, call.year) # {} =>
                \E i \in TracesOf(call.ret, id) : call.ret.data[i].x = <<>>

\* C10 amended: when the table has no year column after Y up to the horizon
\* (Y is the last tracked year), the figure has no series at all; a company
\* with a record at Y is left out like one without.
C10_LastYearOmitted ==
    (IsChartCall /\ \A yr \in (call.year + 1)..Horizon : str(yr) \notin df.columns)
        => call.ret.data = <<>>

C10_Witness ==
    /\ IsChartCall
    /\ call.year = Horizon
    /\ \E id \in IdsIn(df) : RowsAt(df, id, Horizon) # {}
    /\ \E id \in IdsIn(df) : RowsAt(df, id, Horizon) = {}

-----------------------------------------------------------------------------
(* C3 *)

IsTimelineCall == call.fn \in {"create_patents_timeline", "create_citations_timeline"}

TimelineColumn ==
    IF call.fn = "create_patents_timeline" THEN "patents_assigned" ELSE "total_citations"

\* C3: in both timelines every company has one series; its years are the
\* distinct cited_years of its records, strictly increasing; the point of a
\* year is the sum of the field over the records of that year; the points add
\* up to the sum of the field over all of the company's records.
C3_TimelineMerged ==
    IsTimelineCall =>
        /\ Len(call.ret.data) = Cardinality(IdsIn(df))
        /\ \A id \in IdsIn(df) :
             LET trace == call.ret.data[Pos(df, id)] IN
             /\ trace.assignee_id = id
             /\ Len(trace.x) = Cardinality(YearsOf(df, id))
             /\ Range(trace.x) = YearsOf(df, id)
             /\ StrictlyIncreasing(trace.x)
             /\ \A k \in DOMAIN trace.x :
                  trace.y[k] = NamedSum(df, RowsAt(df, id, trace.x[k]), TimelineColumn)
             /\ SeqSum(trace.y) = NamedSum(df, RowsOf(df, id), TimelineColumn)

\* two records of one company and one year, merged into a single point
C3_Witness ==
    /\ IsTimelineCall
    /\ \E i \in DOMAIN call.ret.data :
         /\ Cardinality(RowsOf(df, call.ret.data[i].assignee_id)) = 2
         /\ call.ret.data[i].x = <<2024>>
         /\ call.ret.data[i].y = <<2>>

-----------------------------------------------------------------------------
(* C4 *)

IsSummaryCall == call.fn = "get_patents_in_year"

\* C4: get_patents_in_year returns one entry per distinct company, in order of
\* first appearance, with the organization name of the company's first record
\* and the sum of patents_assigned over its records at Y (0 when it has none).
C4_OneEntryPerCompany ==
    IsSummaryCall =>
        /\ Len(call.ret) = Cardinality(IdsIn(df))
        /\ \A id \in IdsIn(df) :
             call.ret[Pos(df, id)] =
                 [company |-> df.rows[FirstRow(df, id)].raw_assignee_organization,
                  patents |-> NamedSum(df, RowsAt(df, id, call.year), "patents_assigned")]

\* two companies, the second in identifier order appearing first; one has
\* patents at Y, the other no record at Y
C4_Witness ==
    /\ IsSummaryCall
    /\ Len(call.ret) = 2
    /\ df.rows[1].assignee_id = "BBBBBBBB5678"
    /\ call.ret[1].patents = 1
    /\ RowsAt(df, "AAAAAAAA1234", call.year) = {}
    /\ call.ret[2].patents = 0

-----------------------------------------------------------------------------
(* C8 *)

\* C8: the catalog lists every company_id of the table exactly once, also when
\* the records of one company_id carry more than one organization name.
C8_CatalogOncePerCompany ==
    call.fn = "get_company_list" =>
        \A id \in IdsIn(df) :
            Cardinality({i \in DOMAIN call.ret : call.ret[i].assignee_id = id}) = 1

-----------------------------------------------------------------------------
(* C2 *)

Prompt == Text("Please select companies and a year to analyze.")

SelectionComplete == company_dropdown # {} /\ year_dropdown # None

\* the records both functions are given by the callback
SelectedRecords == FilterCompanies(df, company_dropdown)

\* C2: for a company present in the records given to both functions but
\* without a record at Y, the citations-to-year figure has no series, while
\* the summary built from get_patents_in_year lists it with a count of 0.
C2_OmittedButCounted ==
    (pc = "serving" /\ SelectionComplete /\ tabs = "citations-to-year") =>
        \A id \in IdsIn(SelectedRecords) :
            RowsAt(SelectedRecords, id, year_dropdown[1]) = {} =>
                /\ TracesOf(tab_content.figure, id) = {}
                /\ Len(summary_text.items) = Cardinality(IdsIn(SelectedRecords))
                /\ summary_text.items[Pos(SelectedRecords, id)].patents = 0
                /\ summary_text.items[Pos(SelectedRecords, id)].company =
                       SelectedRecords.rows[FirstRow(SelectedRecords, id)].raw_assignee_organization

\* one selected company has a series, the other has no record at Y
C2_Witness ==
    /\ pc = "serving" /\ SelectionComplete /\ tabs = "citations-to-year"
    /\ Len(tab_content.figure.data) = 1
    /\ Len(summary_text.items) = 2
    /\ \E id \in IdsIn(SelectedRecords) : RowsAt(SelectedRecords, id, year_dropdown[1]) = {}

-----------------------------------------------------------------------------
(* C5 *)

-----------------------------------------------------------------------------
(* C6 *)

-----------------------------------------------------------------------------
(* C7 *)

Loaded == IF csv = FileMissing THEN EmptyFrame ELSE csv

\* C7: the table stays as loaded through every callback, and whenever the
\* selection equals the one of a remembered earlier invocation, the outputs
\* equal the remembered ones.
C7_PureCallback ==
    /\ pc # "start" => df = Loaded
    /\ (pc = "serving" /\ memo # NoMemo
        /\ memo.companies = company_dropdown /\ memo.year = year_dropdown
        /\ memo.tab = tabs)
           => memo.out = <<summary_text, tab_content>>

\* a remembered dashboard output is on display again after the selection had
\* been narrowed to one company in between
C7_Witness ==
    /\ pc = "serving" /\ memo # NoMemo
    /\ memo.companies = company_dropdown /\ memo.year = year_dropdown
    /\ memo.tab = tabs
    /\ memo.left
    /\ Cardinality(company_dropdown) = 2
    /\ SelectionComplete

====
